---- MODULE Spec2Model ----
(***************************************************************************)
(* A model of the socket.io emitter of src/emitter.go: the Emitter session *)
(* (Key, rooms, flags, broadcast channel, redis pool target), its          *)
(* configuration calls (Join, Volatile, Broadcast, In, To, Of), the two    *)
(* emitting calls (Emit, EmitBinary), the private emit and the binary      *)
(* classification HasBinary.                                               *)
(***************************************************************************)
EXTENDS Integers, Sequences, FiniteSets, TLC

VARIABLES
    Key,               \* Emitter.Key
    broadcastChannel,  \* BroadcastOpts.broadcastChannel
    requestChannel,    \* BroadcastOpts.requestChannel
    addr,              \* the address the redis pool dials
    rooms,             \* Emitter.rooms, a slice of room names
    flags,             \* Emitter.flags, a Go map that may be nil
    pool,              \* redisPool: the connections borrowed and not closed
    peer,              \* a second Emitter made by NewEmitter: [rooms, flags]
    shared,            \* do the two callers call the same Emitter
    callers,           \* history: what each of the two callers set and sent
    config,            \* history: the options given to NewEmitter, its error
    nspSet,            \* history: the namespace set by Of since the last emit
    flagsSet,          \* history: the flags set since the last successful emit
    last               \* history: the last call, its pre-state and its result

vars == <<Key, broadcastChannel, requestChannel, addr, rooms, flags, pool,
          peer, shared, callers, config, nspSet, flagsSet, last>>

(***************************************************************************)
(* Bounds of the model.                                                    *)
(***************************************************************************)
MaxRooms == 3     \* number of distinct room names callers use
MaxNodes == 4     \* number of values (at any depth) in one argument list

(***************************************************************************)
(* Program constants.                                                      *)
(***************************************************************************)
UID == "emitter"
EVENT == 2
BINARY_EVENT == 5

(***************************************************************************)
(* strconv.Itoa for the non-negative numbers the model uses.               *)
(***************************************************************************)
Digits == <<"0", "1", "2", "3", "4", "5", "6", "7", "8", "9">>

RECURSIVE Itoa(_)
Itoa(n) == IF n < 10 THEN Digits[n + 1]
           ELSE Itoa(n \div 10) \o Digits[(n % 10) + 1]

(***************************************************************************)
(* Go maps with string keys.  A map value is [nil, m]: nil says that the   *)
(* map was never made, m is the function from the present keys to their    *)
(* values.  Reading, len, delete and range work on a nil map; assignment   *)
(* to an entry of a nil map panics.                                        *)
(***************************************************************************)
EmptyFcn == [x \in {} |-> TRUE]
NilMap == [nil |-> TRUE, m |-> EmptyFcn]
MakeMap == [nil |-> FALSE, m |-> EmptyFcn]
MapHas(mp, k) == k \in DOMAIN mp.m
MapSet(mp, k, v) ==
    [nil |-> FALSE,
     m |-> [x \in (DOMAIN mp.m) \cup {k} |-> IF x = k THEN v ELSE mp.m[x]]]
MapDelete(mp, k) ==
    [nil |-> mp.nil, m |-> [x \in (DOMAIN mp.m) \ {k} |-> mp.m[x]]]

(***************************************************************************)
(* Construction.                                                           *)
(***************************************************************************)
EmitterOpts(host, port, key, protocol, address) ==
    [Key |-> key, Host |-> host, Port |-> port, Protocol |-> protocol,
     Addr |-> address]

initRedisConnPoolHostFirst(opts) ==
    IF opts.Host # "" /\ opts.Port > 0
    THEN opts.Host \o ":" \o Itoa(opts.Port)
    ELSE IF opts.Addr # "" THEN opts.Addr
         ELSE "localhost:6379"

initRedisConnPoolHostOnly(opts) ==
    IF opts.Addr # "" THEN opts.Addr
    ELSE IF opts.Host # ""
         THEN opts.Host \o ":" \o (IF opts.Port > 0 THEN Itoa(opts.Port)
                                                    ELSE "6379")
         ELSE "localhost:6379"

initRedisConnPool(opts) ==
    IF opts.Addr # "" THEN opts.Addr
    ELSE IF opts.Host # "" /\ opts.Port > 0
         THEN opts.Host \o ":" \o Itoa(opts.Port)
         ELSE "localhost:6379"

OptsKey(opts) == IF opts.Key = "" THEN "socket.io" ELSE opts.Key

NoCall ==
    [op |-> "none", arg |-> "", outcome |-> "none", ret |-> "none",
     err |-> FALSE, preRooms |-> <<>>, preFlags |-> NilMap, preNsp |-> <<>>,
     data |-> <<>>, packet |-> <<>>, options |-> <<>>, encoded |-> FALSE,
     published |-> <<>>, conns |-> [acquired |-> 0, released |-> 0],
     preSet |-> {}]

\* lines 104-108: the Emitter has no rooms and its flags map is not made
NewSession == [rooms |-> <<>>, flags |-> NilMap]

\* the two callers: nothing set, nothing sent
Callers == {"A", "B"}
Idle == [c \in Callers |-> [pc |-> "In", asked |-> {}, askedNsp |-> <<>>,
                            added |-> {}, sent |-> <<>>]]

\* one caller, which calls the Emitter of rooms and flags
OneCaller ==
    /\ shared = FALSE
    /\ peer = NewSession
    /\ callers = Idle

NewEmitter(opts) ==
    /\ Key = OptsKey(opts)
    /\ broadcastChannel = OptsKey(opts) \o "#" \o "/" \o "#"
    /\ requestChannel = OptsKey(opts) \o "-request#" \o "/" \o "#"
    /\ addr = initRedisConnPool(opts)
    /\ rooms = <<>>
    /\ flags = NilMap
    /\ pool = 0
    /\ config = [opts |-> opts, err |-> FALSE]
    /\ nspSet = <<>>
    /\ flagsSet = {}
    /\ last = NoCall

SessionOpts ==
    {EmitterOpts("", 0, k, "", "") : k \in {"", "app"}}

Init == \E opts \in SessionOpts : NewEmitter(opts) /\ OneCaller

\* The options of the configuration specification.
ConfigOpts ==
    {EmitterOpts(h, p, k, "", a) :
        h \in {"", "cache"}, p \in {-1, 0, 6380}, k \in {"", "app"},
        a \in {"", "redis:7000"}}

InitConfig == \E opts \in ConfigOpts : NewEmitter(opts) /\ OneCaller

\* Two callers, on one Emitter or each on its own.
InitCallers ==
    \E opts \in SessionOpts, sh \in BOOLEAN :
        /\ NewEmitter(opts)
        /\ shared = sh
        /\ peer = NewSession
        /\ callers = Idle

(***************************************************************************)
(* The names callers use.                                                  *)
(***************************************************************************)
RoomNames == {"room" \o Itoa(i) : i \in 1..MaxRooms}
Namespaces == {"/admin", "/chat"}
Events == {"chat"}

(***************************************************************************)
(* Go values passed as event data.  A value is [k, v]: k is its dynamic    *)
(* type, v its content.  "string" is a scalar the encoder supports, "chan" *)
(* a scalar it does not support, "bytes" is []byte, "buffer" is            *)
(* bytes.Buffer, "slice" is []interface{} and "map" is                     *)
(* map[string]interface{}.                                                 *)
(***************************************************************************)
Str(s) == [k |-> "string", v |-> s]
Bytes == [k |-> "bytes", v |-> <<1, 2, 3>>]
Buffer == [k |-> "buffer", v |-> <<1>>]
Chan == [k |-> "chan", v |-> <<>>]
Slice(l) == [k |-> "slice", v |-> l]
KeyName(i) == "k" \o Itoa(i)
MapOf(l) ==
    [k |-> "map",
     v |-> [key \in {KeyName(i) : i \in 1..Len(l)} |->
               l[CHOOSE i \in 1..Len(l) : KeyName(i) = key]]]

Atoms == {Str("hello"), Bytes, Buffer, Chan}

\* Argument lists of exactly n values, counting the values at every depth.
RECURSIVE ValuesOfSize(_), ListsOfSize(_)
ValuesOfSize(n) ==
    IF n = 1 THEN Atoms \cup {Slice(<<>>), MapOf(<<>>)}
    ELSE {Slice(l) : l \in ListsOfSize(n - 1)}
         \cup {MapOf(l) : l \in ListsOfSize(n - 1)}
ListsOfSize(n) ==
    IF n = 0 THEN {<<>>}
    ELSE UNION {{<<x>> \o l : x \in ValuesOfSize(i), l \in ListsOfSize(n - i)}
                : i \in 1..n}

Payloads == UNION {ListsOfSize(n) : n \in 0..MaxNodes}

\* The argument lists the session specification emits.
SessionPayloads ==
    {<<>>, <<Str("hello")>>, <<Bytes>>, <<Str("hello"), Bytes>>, <<Chan>>}

(***************************************************************************)
(* HasBinary, lines 186-215.  The outer loop returns at the first element  *)
(* that is not a slice or a map; the inner loops call HasBinary on one     *)
(* element at a time and go on when it returns false.                      *)
(***************************************************************************)
RECURSIVE HasBinaryFrom(_, _)
HasBinaryFrom(dataSlice, i) ==
    IF i > Len(dataSlice) THEN FALSE
    ELSE LET data == dataSlice[i] IN
         CASE data.k = "bytes" -> TRUE
           [] data.k = "buffer" -> TRUE
           [] data.k = "slice" ->
                IF \E j \in 1..Len(data.v) : HasBinaryFrom(<<data.v[j]>>, 1)
                THEN TRUE
                ELSE HasBinaryFrom(dataSlice, i + 1)
           [] data.k = "map" ->
                IF \E key \in DOMAIN data.v : HasBinaryFrom(<<data.v[key]>>, 1)
                THEN TRUE
                ELSE HasBinaryFrom(dataSlice, i + 1)
           [] OTHER -> FALSE

HasBinaryScalarIsBinary(dataSlice) ==
    \E i \in 1..Len(dataSlice) : dataSlice[i].k \in {"bytes", "buffer", "string"}

HasBinaryScansAll(dataSlice) ==
    \E i \in 1..Len(dataSlice) : HasBinaryFrom(<<dataSlice[i]>>, 1)

HasBinary(dataSlice) ==
    IF Len(dataSlice) = 0 THEN FALSE ELSE HasBinaryFrom(dataSlice, 1)

(***************************************************************************)
(* The msgpack encoder: it fails on a value of a type it does not support, *)
(* at any depth, and otherwise yields the buffer holding the pack.         *)
(***************************************************************************)
RECURSIVE Encodable(_)
Encodable(x) ==
    CASE x.k = "chan" -> FALSE
      [] x.k = "slice" -> \A j \in 1..Len(x.v) : Encodable(x.v[j])
      [] x.k = "map" -> \A key \in DOMAIN x.v : Encodable(x.v[key])
      [] OTHER -> TRUE

Encode(pack) ==
    LET d == pack[2]["data"] IN
    [err |-> ~(\A j \in 1..Len(d) : Encodable(d[j])), buf |-> pack]

(***************************************************************************)
(* The steps of the private emit, lines 226-254.                           *)
(***************************************************************************)
\* lines 227-230: a pending namespace moves from the flags to the packet
ConsumeNspKeepsFlag(fl, packet) ==
    IF MapHas(fl, "nsp")
    THEN [flags |-> fl,
          packet |-> [data |-> packet["data"], type |-> packet["type"],
                      nsp |-> fl.m["nsp"]]]
    ELSE [flags |-> fl, packet |-> packet]

ConsumeNsp(fl, packet) ==
    IF MapHas(fl, "nsp")
    THEN [flags |-> MapDelete(fl, "nsp"),
          packet |-> [data |-> packet["data"], type |-> packet["type"],
                      nsp |-> fl.m["nsp"]]]
    ELSE [flags |-> fl, packet |-> packet]

\* lines 231-237: the pack is [UID, packet, {rooms, flags}]
Pack(packet, rms, fl) == <<UID, packet, [rooms |-> rms, flags |-> fl]>>

\* lines 247-250: the channel the buffer is published on
ChannelAnyRoom(bc, rms) ==
    IF Len(rms) >= 1 THEN bc \o rms[1] \o "#" ELSE bc

Channel(bc, rms) ==
    IF Len(rms) = 1 THEN bc \o rms[1] \o "#" ELSE bc

\* line 245: the flags are replaced by a new, empty map
ClearFlagsOnlyMakes(fl) == IF fl.nil THEN MakeMap ELSE fl

ClearFlags(fl) == MakeMap

\* lines 217-224: one connection, one PUBLISH, the error is only printed
publish(channel, buf, ok) == <<[buf |-> buf, channel |-> channel, ok |-> ok]>>

\* lines 218-219: the connection is taken from the pool and its Close is
\* deferred, so that it runs whatever the PUBLISH answers
NoConns == [acquired |-> 0, released |-> 0]

publishConnsLeakOnError(ok) ==
    [acquired |-> 1, released |-> IF ok THEN 1 ELSE 0]

publishConns(ok) == [acquired |-> 1, released |-> 1]

\* The result of emit(packet) on a session with rooms rms, flags fl and
\* broadcast channel bc, when the transport answers ok to the PUBLISH.
emitPublishesBeforeErrorCheck(rms, fl, bc, packet, ok) ==
    LET c == ConsumeNsp(fl, packet)
        pack == Pack(c.packet, rms, c.flags)
        e == Encode(pack)
    IN  IF e.err
        THEN [rooms |-> rms, flags |-> c.flags, ret |-> "nil", err |-> TRUE,
              packet |-> c.packet, options |-> pack[3], encoded |-> FALSE,
              published |-> publish(Channel(bc, rms), e.buf, ok),
              conns |-> publishConns(ok)]
        ELSE [rooms |-> rms, flags |-> ClearFlags(c.flags),
              ret |-> "emitter", err |-> FALSE,
              packet |-> c.packet, options |-> pack[3], encoded |-> TRUE,
              published |-> publish(Channel(bc, rms), e.buf, ok),
              conns |-> publishConns(ok)]

emitReturnsPublishError(rms, fl, bc, packet, ok) ==
    LET c == ConsumeNsp(fl, packet)
        pack == Pack(c.packet, rms, c.flags)
        e == Encode(pack)
    IN  IF e.err
        THEN [rooms |-> rms, flags |-> c.flags, ret |-> "nil", err |-> TRUE,
              packet |-> c.packet, options |-> pack[3], encoded |-> FALSE,
              published |-> <<>>, conns |-> NoConns]
        ELSE [rooms |-> rms, flags |-> ClearFlags(c.flags),
              ret |-> IF ok THEN "emitter" ELSE "nil", err |-> ~ok,
              packet |-> c.packet, options |-> pack[3], encoded |-> TRUE,
              published |-> publish(Channel(bc, rms), e.buf, ok),
              conns |-> publishConns(ok)]

emit(rms, fl, bc, packet, ok) ==
    LET c == ConsumeNsp(fl, packet)
        pack == Pack(c.packet, rms, c.flags)
        e == Encode(pack)
    IN  IF e.err
        THEN [rooms |-> rms, flags |-> c.flags, ret |-> "nil", err |-> TRUE,
              packet |-> c.packet, options |-> pack[3], encoded |-> FALSE,
              published |-> <<>>, conns |-> NoConns]
        ELSE [rooms |-> rms, flags |-> ClearFlags(c.flags),
              ret |-> "emitter", err |-> FALSE,
              packet |-> c.packet, options |-> pack[3], encoded |-> TRUE,
              published |-> publish(Channel(bc, rms), e.buf, ok),
              conns |-> publishConns(ok)]

(***************************************************************************)
(* The packets of Emit (lines 159-171) and EmitBinary (lines 176-184).     *)
(***************************************************************************)
EmitPacket(event, data) ==
    [data |-> <<Str(event)>> \o data,
     type |-> IF HasBinary(data) THEN BINARY_EVENT ELSE EVENT]

EmitBinaryPacketClassified(event, data) == EmitPacket(event, data)

EmitBinaryPacket(event, data) ==
    [data |-> <<Str(event)>> \o data, type |-> BINARY_EVENT]

(***************************************************************************)
(* The calls.  Each records itself in last with the state it started from. *)
(***************************************************************************)
Call(op, arg) ==
    [NoCall EXCEPT !.op = op, !.arg = arg, !.preRooms = rooms,
                   !.preFlags = flags, !.preNsp = nspSet, !.preSet = flagsSet]

Fixed ==
    UNCHANGED <<Key, broadcastChannel, requestChannel, addr, config,
                peer, shared, callers>>

\* emitter.flags[name] = value: panics when the map is nil
AssignFlag(op, arg, name, value) ==
    IF flags.nil
    THEN /\ last' = [Call(op, arg) EXCEPT !.outcome = "panic"]
         /\ UNCHANGED <<rooms, flags, pool, nspSet, flagsSet>>
    ELSE /\ flags' = MapSet(flags, name, value)
         /\ last' = [Call(op, arg) EXCEPT !.outcome = "returned",
                                          !.ret = "emitter"]
         /\ nspSet' = IF name = "nsp" THEN <<value>> ELSE nspSet
         /\ flagsSet' = IF name = "nsp" THEN flagsSet ELSE flagsSet \cup {name}
         /\ UNCHANGED <<rooms, pool>>

Join == AssignFlag("Join", "join", "join", TRUE) /\ Fixed

Volatile == AssignFlag("Volatile", "volatile", "volatile", TRUE) /\ Fixed

Broadcast == AssignFlag("Broadcast", "broadcast", "broadcast", TRUE) /\ Fixed

Of(namespace) == AssignFlag("Of", namespace, "nsp", namespace) /\ Fixed

\* lines 132-140
InRoomsAppendAlways(rms, room) == Append(rms, room)

InRoomsMovesToEnd(rms, room) ==
    Append(SelectSeq(rms, LAMBDA r : r # room), room)

InRooms(rms, room) ==
    IF \E i \in 1..Len(rms) : rms[i] = room THEN rms ELSE Append(rms, room)

In(room) ==
    /\ rooms' = InRooms(rooms, room)
    /\ last' = [Call("In", room) EXCEPT !.outcome = "returned",
                                        !.ret = "emitter"]
    /\ UNCHANGED <<flags, pool, nspSet, flagsSet>>
    /\ Fixed

To(room) ==
    /\ rooms' = InRooms(rooms, room)
    /\ last' = [Call("To", room) EXCEPT !.outcome = "returned",
                                        !.ret = "emitter"]
    /\ UNCHANGED <<flags, pool, nspSet, flagsSet>>
    /\ Fixed

Emitting(op, event, data, packet, ok) ==
    LET r == emit(rooms, flags, broadcastChannel, packet, ok) IN
    /\ rooms' = r.rooms
    /\ flags' = r.flags
    /\ pool' = pool + r.conns.acquired - r.conns.released
    /\ nspSet' = <<>>
    /\ flagsSet' = IF r.err THEN flagsSet ELSE {}
    /\ last' = [Call(op, event) EXCEPT
                   !.outcome = "returned", !.ret = r.ret, !.err = r.err,
                   !.data = data, !.packet = r.packet, !.options = r.options,
                   !.encoded = r.encoded, !.published = r.published,
                   !.conns = r.conns]

Emit(event, data, ok) ==
    /\ Emitting("Emit", event, data, EmitPacket(event, data), ok)
    /\ Fixed

EmitBinary(event, data, ok) ==
    /\ Emitting("EmitBinary", event, data, EmitBinaryPacket(event, data), ok)
    /\ Fixed

(***************************************************************************)
(* The session specification: any sequence of calls on one session.        *)
(***************************************************************************)
Next ==
    \/ Join
    \/ Volatile
    \/ Broadcast
    \/ \E n \in Namespaces : Of(n)
    \/ \E r \in RoomNames : In(r)
    \/ \E r \in RoomNames : To(r)
    \/ \E e \in Events, d \in SessionPayloads, ok \in BOOLEAN : Emit(e, d, ok)
    \/ \E e \in Events, d \in SessionPayloads, ok \in BOOLEAN :
          EmitBinary(e, d, ok)

Spec == Init /\ [][Next]_vars

(***************************************************************************)
(* The codec specification: the first emitting call on a new session, with *)
(* every argument list of at most MaxNodes values.                         *)
(***************************************************************************)
FirstEmit ==
    /\ last.op = "none"
    /\ \E e \in Events, d \in Payloads, ok \in BOOLEAN : Emit(e, d, ok)

FirstEmitBinary ==
    /\ last.op = "none"
    /\ \E e \in Events, d \in Payloads, ok \in BOOLEAN : EmitBinary(e, d, ok)

NextCodec ==
    \/ FirstEmit
    \/ FirstEmitBinary

SpecCodec == Init /\ [][NextCodec]_vars

(***************************************************************************)
(* The callers specification: two callers, A and B, each repeating the     *)
(* sequence In, Join or Broadcast, Of, Emit with its own room, flag and     *)
(* namespace, in any interleaving of their calls, on one Emitter (shared)  *)
(* or each on its own (A on rooms and flags, B on peer).                   *)
(***************************************************************************)
FlagOf(c) == IF c = "A" THEN "join" ELSE "broadcast"
RoomOf(c) == IF c = "A" THEN "room1" ELSE "room2"
NamespaceOf(c) == IF c = "A" THEN "/admin" ELSE "/chat"

\* the Emitter the calls of caller c act on
OnFirstAlways(c) == TRUE

OnFirst(c) == c = "A" \/ shared

SessionOf(c) == IF OnFirst(c) THEN [rooms |-> rooms, flags |-> flags] ELSE peer

SetSession(c, s) ==
    IF OnFirst(c)
    THEN /\ rooms' = s.rooms
         /\ flags' = s.flags
         /\ UNCHANGED peer
    ELSE /\ peer' = s
         /\ UNCHANGED <<rooms, flags>>

CallersFixed ==
    UNCHANGED <<Key, broadcastChannel, requestChannel, addr, config, shared,
                nspSet, flagsSet, last>>

\* Join or Broadcast by caller c
CallerFlag(c) ==
    LET s == SessionOf(c) IN
    /\ callers[c].pc = "Flag"
    /\ IF s.flags.nil
       THEN /\ callers' = [callers EXCEPT ![c].pc = "Of"]
            /\ UNCHANGED <<rooms, flags, peer>>
       ELSE /\ SetSession(c, [s EXCEPT !.flags = MapSet(s.flags, FlagOf(c), TRUE)])
            /\ callers' = [callers EXCEPT ![c].pc = "Of",
                                          ![c].asked = @ \cup {FlagOf(c)}]
    /\ UNCHANGED pool
    /\ CallersFixed

\* Of by caller c
CallerOf(c) ==
    LET s == SessionOf(c) IN
    /\ callers[c].pc = "Of"
    /\ IF s.flags.nil
       THEN /\ callers' = [callers EXCEPT ![c].pc = "Emit"]
            /\ UNCHANGED <<rooms, flags, peer>>
       ELSE /\ SetSession(c, [s EXCEPT
                                !.flags = MapSet(s.flags, "nsp", NamespaceOf(c))])
            /\ callers' = [callers EXCEPT ![c].pc = "Emit",
                                          ![c].askedNsp = <<NamespaceOf(c)>>]
    /\ UNCHANGED pool
    /\ CallersFixed

\* In by caller c
CallerIn(c) ==
    LET s == SessionOf(c) IN
    /\ callers[c].pc = "In"
    /\ SetSession(c, [s EXCEPT !.rooms = InRooms(s.rooms, RoomOf(c))])
    /\ callers' = [callers EXCEPT ![c].pc = "Flag",
                                  ![c].added = @ \cup {RoomOf(c)}]
    /\ UNCHANGED pool
    /\ CallersFixed

\* Emit without arguments by caller c
CallerEmit(c, event, ok) ==
    LET s == SessionOf(c)
        r == emit(s.rooms, s.flags, broadcastChannel, EmitPacket(event, <<>>), ok)
        me == callers[c]
    IN
    /\ me.pc = "Emit"
    /\ SetSession(c, [rooms |-> r.rooms, flags |-> r.flags])
    /\ pool' = pool + r.conns.acquired - r.conns.released
    /\ callers' =
          [callers EXCEPT
             ![c] = [pc |-> "In", asked |-> {}, askedNsp |-> <<>>,
                     added |-> me.added,
                     sent |-> <<[had |-> [rooms |-> me.added,
                                          flags |-> me.asked,
                                          nsp |-> me.askedNsp],
                                 got |-> [rooms |-> r.options.rooms,
                                          flags |-> DOMAIN r.options.flags.m,
                                          nsp |-> IF "nsp" \in DOMAIN r.packet
                                                  THEN <<r.packet["nsp"]>>
                                                  ELSE <<>>]]>>]]
    /\ CallersFixed

NextCallers ==
    \/ \E c \in Callers : CallerFlag(c)
    \/ \E c \in Callers : CallerOf(c)
    \/ \E c \in Callers : CallerIn(c)
    \/ \E c \in Callers, e \in Events, ok \in BOOLEAN : CallerEmit(c, e, ok)

SpecCallers == InitCallers /\ [][NextCallers]_vars

(***************************************************************************)
(* The configuration specification: a session constructed from any of the  *)
(* options of ConfigOpts, then rooms and emits without arguments.          *)
(***************************************************************************)
NextConfig ==
    \/ \E r \in RoomNames : In(r)
    \/ \E e \in Events, ok \in BOOLEAN : Emit(e, <<>>, ok)

SpecConfig == InitConfig /\ [][NextConfig]_vars

(***************************************************************************)
(* Vocabulary of the properties.                                           *)
(***************************************************************************)
FlagCalls == {"Join", "Volatile", "Broadcast"}
IsEmit == last.op \in {"Emit", "EmitBinary"}
Succeeded == IsEmit /\ ~last.err
Range(seq) == {seq[i] : i \in 1..Len(seq)}
NoDuplicates(seq) == \A i, j \in 1..Len(seq) : seq[i] = seq[j] => i = j

\* a raw byte sequence somewhere in the value, at any depth
RECURSIVE ContainsBytes(_)
ContainsBytes(x) ==
    CASE x.k \in {"bytes", "buffer"} -> TRUE
      [] x.k = "slice" -> \E j \in 1..Len(x.v) : ContainsBytes(x.v[j])
      [] x.k = "map" -> \E key \in DOMAIN x.v : ContainsBytes(x.v[key])
      [] OTHER -> FALSE
AnyBytes(data) == \E i \in 1..Len(data) : ContainsBytes(data[i])

\* the channel of the room-count rule, for namespace ns
RoomCountChannel(ns, rms) ==
    IF Len(rms) = 1 THEN Key \o "#" \o ns \o "#" \o rms[1] \o "#"
    ELSE Key \o "#" \o ns \o "#"

(***************************************************************************)
(* C1: a withFlag call (Join, Volatile, Broadcast) completes in every      *)
(* state, a new session included: it returns the session and the flag it   *)
(* names is true afterwards.                                               *)
(***************************************************************************)
C1_WithFlagCompletes ==
    last.op \in FlagCalls =>
        /\ last.outcome = "returned"
        /\ last.ret = "emitter"
        /\ MapHas(flags, last.arg)
        /\ flags.m[last.arg] = TRUE

(***************************************************************************)
(* C2: after a successful Emit or EmitBinary the flags are empty and the   *)
(* rooms are the rooms the call started with, in the same order.           *)
(***************************************************************************)
C2_EmitClearsFlagsKeepsRooms ==
    Succeeded => /\ DOMAIN flags.m = {}
                 /\ rooms = last.preRooms

C2_Witness ==
    /\ Succeeded
    /\ DOMAIN last.preFlags.m # {}
    /\ Len(last.preRooms) >= 2

(***************************************************************************)
(* C3: with the default namespace the channel of an emit depends on the    *)
(* number of rooms only: one room r gives "{key}#/#{r}#", no room or two   *)
(* or more rooms give "{key}#/#", and the envelope's options.rooms holds   *)
(* every room of the session.                                              *)
(***************************************************************************)
C3_ChannelByRoomCount ==
    (Succeeded /\ "nsp" \notin DOMAIN last.packet) =>
        /\ Len(last.published) = 1
        /\ last.published[1].channel = RoomCountChannel("/", last.preRooms)
        /\ last.published[1].buf[3].rooms = last.preRooms
        /\ last.options.rooms = last.preRooms

C3_Witness ==
    /\ Succeeded
    /\ "nsp" \notin DOMAIN last.packet
    /\ Len(last.preRooms) = 2
    /\ last.published[1].channel = Key \o "#/#"

(***************************************************************************)
(* C4: the namespace part of the channel of an emit is the namespace in    *)
(* force: the one given to the last Of since the emit before, else "/".    *)
(***************************************************************************)
C4_ChannelUsesNamespace ==
    Succeeded =>
        last.published[1].channel =
            RoomCountChannel(IF last.preNsp = <<>> THEN "/" ELSE last.preNsp[1],
                             last.preRooms)

(***************************************************************************)
(* C5: an argument list of Emit that holds a raw byte sequence at any      *)
(* depth and position gives packet type BINARY_EVENT (5).                  *)
(***************************************************************************)
C5_BytesGiveBinaryEvent ==
    (last.op = "Emit" /\ AnyBytes(last.data)) =>
        last.packet["type"] = BINARY_EVENT

(***************************************************************************)
(* C6: an argument list of Emit that holds no raw byte sequence anywhere,  *)
(* the empty list included, gives packet type EVENT (2).                   *)
(***************************************************************************)
C6_NoBytesGiveEvent ==
    (last.op = "Emit" /\ ~AnyBytes(last.data)) =>
        /\ last.packet["type"] = EVENT
        /\ \A i \in 1..Len(last.published) :
              last.published[i].buf[2]["type"] = EVENT

C6_Witness ==
    /\ last.op = "Emit"
    /\ ~AnyBytes(last.data)
    /\ Len(last.data) = 2
    /\ last.data[1].k = "slice"
    /\ Len(last.data[1].v) = 1
    /\ Len(last.published) = 1

(***************************************************************************)
(* C7: EmitBinary always gives packet type BINARY_EVENT (5), whatever the  *)
(* arguments, and has the channel, the options and the effect on flags and *)
(* rooms of Emit.                                                          *)
(***************************************************************************)
C7_EmitBinaryAlwaysBinary ==
    last.op = "EmitBinary" =>
        /\ last.packet["type"] = BINARY_EVENT
        /\ last.packet["data"] = <<Str(last.arg)>> \o last.data
        /\ last.options.rooms = last.preRooms
        /\ last.options.flags = MapDelete(last.preFlags, "nsp")
        /\ rooms = last.preRooms
        /\ ~last.err =>
              /\ Len(last.published) = 1
              /\ last.published[1].channel = RoomCountChannel("/", last.preRooms)
              /\ last.published[1].buf[2]["type"] = BINARY_EVENT
              /\ DOMAIN flags.m = {}

C7_Witness ==
    /\ last.op = "EmitBinary"
    /\ ~last.err
    /\ ~AnyBytes(last.data)
    /\ Len(last.data) = 1
    /\ Len(last.preRooms) = 1

(***************************************************************************)
(* C8: rooms never holds a name twice, and In or To with a name the        *)
(* session already holds leaves rooms as it was.                           *)
(***************************************************************************)
C8_RoomsNoDuplicates ==
    /\ NoDuplicates(rooms)
    /\ (last.op \in {"In", "To"} /\ last.arg \in Range(last.preRooms)) =>
           rooms = last.preRooms

C8_Witness ==
    /\ last.op \in {"In", "To"}
    /\ last.arg \in Range(last.preRooms)
    /\ Len(rooms) >= 2

C10_FailedEmitKeepsState ==
    (IsEmit /\ last.err) =>
        /\ rooms = last.preRooms
        /\ flags = last.preFlags

(***************************************************************************)
(* C11: when the serialization of the envelope fails, emit returns the     *)
(* error and publishes nothing: it takes no connection from the pool and   *)
(* issues no PUBLISH.                                                      *)
(***************************************************************************)
Serializable(data) == \A i \in 1..Len(data) : Encodable(data[i])

C11_EncodingFailurePublishesNothing ==
    (IsEmit /\ ~Serializable(last.data)) =>
        /\ last.err
        /\ last.published = <<>>
        /\ last.conns.acquired = 0
        /\ pool = 0

C11_Witness ==
    /\ IsEmit
    /\ ~Serializable(last.data)
    /\ last.err
    /\ Len(last.preRooms) = 1
    /\ DOMAIN last.preFlags.m # {}

(***************************************************************************)
(* C12: a failure of the PUBLISH does not show in the result of emit nor   *)
(* in the session: emit returns the session and no error, the flags are    *)
(* cleared and the rooms are kept, as when the PUBLISH succeeds.           *)
(***************************************************************************)
PublishFailed ==
    /\ IsEmit
    /\ Len(last.published) = 1
    /\ ~last.published[1].ok

C12_PublishFailureInvisible ==
    PublishFailed =>
        /\ last.outcome = "returned"
        /\ last.ret = "emitter"
        /\ ~last.err
        /\ ~flags.nil
        /\ DOMAIN flags.m = {}
        /\ rooms = last.preRooms

C12_Witness ==
    /\ PublishFailed
    /\ DOMAIN last.preFlags.m # {}
    /\ Len(last.preRooms) = 2
    /\ DOMAIN flags.m = {}

(***************************************************************************)
(* C13: an emit whose envelope serializes takes exactly one connection     *)
(* from the pool, issues exactly one PUBLISH and closes the connection     *)
(* whether the PUBLISH succeeds or fails; after any call has returned no   *)
(* connection is outstanding.                                              *)
(***************************************************************************)
C13_OneConnectionPerEmit ==
    /\ pool = 0
    /\ (IsEmit /\ Serializable(last.data)) =>
           /\ last.conns.acquired = 1
           /\ last.conns.released = 1
           /\ Len(last.published) = 1
    /\ ~IsEmit => last.conns.acquired = 0

C13_Witness ==
    /\ PublishFailed
    /\ last.conns.acquired = 1
    /\ last.conns.released = 1
    /\ pool = 0

RECURSIVE FirstLeafOfValue(_), FirstLeaf(_)
FirstLeafOfValue(x) ==
    CASE x.k \in {"bytes", "buffer"} -> "bytes"
      [] x.k = "slice" -> FirstLeaf(x.v)
      [] x.k = "map" ->
           LET met == {FirstLeafOfValue(x.v[key]) : key \in DOMAIN x.v}
                          \ {"none"}
           IN  IF met = {} THEN "none"
               ELSE IF Cardinality(met) = 1 THEN CHOOSE l \in met : TRUE
               ELSE "any"
      [] OTHER -> "scalar"
FirstLeaf(l) ==
    IF l = <<>> THEN "none"
    ELSE LET h == FirstLeafOfValue(Head(l)) IN
         IF h = "none" THEN FirstLeaf(Tail(l)) ELSE h

C17_ShortCircuitAtAnyDepth ==
    (last.op = "Emit" /\ FirstLeaf(last.data) = "scalar") =>
        last.packet["type"] = EVENT

(***************************************************************************)
(* C17, amended: classification stops at the first top-level argument that *)
(* is a scalar and answers EVENT without looking at the later arguments;   *)
(* inside a slice or a map a scalar ends its own branch only and the       *)
(* siblings after it are still inspected.  So the type is BINARY_EVENT     *)
(* exactly when some argument holds a byte sequence at any depth and every *)
(* argument before it is a slice or a map.                                 *)
(***************************************************************************)
C17_ShortCircuitAtTopLevel ==
    last.op = "Emit" =>
        (last.packet["type"] = BINARY_EVENT <=>
            \E i \in 1..Len(last.data) :
                /\ ContainsBytes(last.data[i])
                /\ \A j \in 1..(i - 1) : last.data[j].k \in {"slice", "map"})

C17_Witness ==
    /\ last.op = "Emit"
    /\ Len(last.data) = 2
    /\ last.data[1] = Slice(<<Str("hello"), Bytes>>)
    /\ last.data[2] = Str("hello")
    /\ last.packet["type"] = BINARY_EVENT

(***************************************************************************)
(* C18: every call returns the session it was called on: In, To, Join,     *)
(* Volatile, Broadcast and Of always, Emit and EmitBinary also when they   *)
(* return an error.                                                        *)
(***************************************************************************)
C18_EveryCallReturnsSession ==
    last.op # "none" =>
        /\ last.outcome = "returned"
        /\ last.ret = "emitter"

(***************************************************************************)
(* C19: rooms only grow: the rooms before a step are a prefix of the rooms *)
(* after it; hence every successful emit of a session that holds two or    *)
(* more rooms publishes on the un-scoped channel "{key}#/#".               *)
(***************************************************************************)
IsPrefix(a, b) == Len(a) <= Len(b) /\ SubSeq(b, 1, Len(a)) = a

RoomsGrow ==
    /\ IsPrefix(rooms, rooms')
    /\ (Len(rooms) >= 2 /\ last'.op \in {"Emit", "EmitBinary"} /\ ~last'.err) =>
           /\ Len(last'.published) = 1
           /\ last'.published[1].channel = Key \o "#/#"

C19_RoomsOnlyGrow == [][RoomsGrow]_vars

C19_Witness ==
    /\ Succeeded
    /\ Len(last.preRooms) = 3
    /\ last.published[1].channel = Key \o "#/#"
    /\ rooms = last.preRooms

(***************************************************************************)
(* C15: construction resolves the options to one address and one key.  A   *)
(* non-empty Addr is used as it is, also when Host and Port are given;     *)
(* else Host and Port give "host:port"; with nothing given the address is  *)
(* "localhost:6379"; an empty Key becomes "socket.io"; every channel the   *)
(* session publishes on starts with the key.                               *)
(***************************************************************************)
GivenKey == IF config.opts.Key = "" THEN "socket.io" ELSE config.opts.Key

C15_ConstructionResolvesOptions ==
    LET o == config.opts IN
    /\ o.Addr # "" => addr = o.Addr
    /\ (o.Addr = "" /\ o.Host = "cache" /\ o.Port = 6380) => addr = "cache:6380"
    /\ (o.Addr = "" /\ o.Host = "" /\ o.Port = 0) => addr = "localhost:6379"
    /\ Key = GivenKey
    /\ Succeeded =>
           last.published[1].channel \in
               {GivenKey \o "#/#"}
                   \cup {GivenKey \o "#/#" \o r \o "#" : r \in RoomNames}

C15_Witness ==
    /\ Succeeded
    /\ config.opts.Addr = "redis:7000"
    /\ config.opts.Host = "cache"
    /\ config.opts.Port = 6380
    /\ config.opts.Key = ""
    /\ addr = "redis:7000"
    /\ last.published[1].channel = "socket.io#/#room1#"

(***************************************************************************)
(* C20: with an empty Addr and a Host given without a positive Port the    *)
(* host is ignored and the address is "localhost:6379"; construction       *)
(* reports no error, whatever the options.                                 *)
(***************************************************************************)
C20_HostWithoutPortIgnored ==
    LET o == config.opts IN
    /\ (o.Addr = "" /\ o.Host # "" /\ o.Port <= 0) => addr = "localhost:6379"
    /\ ~config.err

C20_Witness ==
    /\ config.opts.Addr = ""
    /\ config.opts.Host = "cache"
    /\ config.opts.Port = -1
    /\ addr = "localhost:6379"
    /\ ~config.err
    /\ Succeeded

(***************************************************************************)
(* C14: when two callers interleave their calls on one session, the        *)
(* envelope of a caller can carry what the other caller set, or differ     *)
(* from what the caller itself set; when each caller has its own session,  *)
(* the envelope of every emit carries exactly the flags, the namespace and *)
(* the rooms its caller set.                                               *)
(***************************************************************************)
SentAsSet(c) ==
    \A i \in 1..Len(callers[c].sent) :
        LET e == callers[c].sent[i] IN
        /\ e.got.flags = e.had.flags
        /\ e.got.nsp = e.had.nsp
        /\ Range(e.got.rooms) = e.had.rooms

C14_OwnSessionsDoNotLeak ==
    ~shared => \A c \in Callers : SentAsSet(c)

C14_Witness ==
    /\ shared
    /\ Len(callers["A"].sent) = 1
    /\ "broadcast" \in callers["A"].sent[1].got.flags
    /\ "broadcast" \notin callers["A"].sent[1].had.flags
    /\ callers["A"].sent[1].got.nsp = <<"/chat">>
    /\ "room2" \in Range(callers["A"].sent[1].got.rooms)

====
